---- MODULE Spec2Model ----
(***************************************************************************)
(* Arnold TX Converter (src/tx_convert_gui.py): the maketx helpers         *)
(* (is_displacement, is_color, needs_conversion, build_maketx_cmd,         *)
(* convert_one) and ConvertWorker.run with its thread pool, its drain loop *)
(* and the cancel flag.  Python strings are TLA+ strings, which TLC treats *)
(* as sequences of characters (Len, SubSeq, \o, Head, Tail).               *)
(***************************************************************************)
EXTENDS Integers, Sequences, FiniteSets, TLC

VARIABLES
    \* ---- ConvertWorker fields (set by __init__) and its environment
    maketx_path,    \* self.maketx_path, stripped
    ocio_file,      \* self.ocio_file, stripped, or None
    filter_str,     \* self.filter_str, stripped
    recursive,      \* self.recursive
    verbose,        \* self.verbose
    cancelled,      \* self._cancelled
    env_OCIO,       \* os.environ.get("OCIO", ""): "" when unset
    cpu_count,      \* os.cpu_count(): NoCpuCount (None) or a positive integer
    root_dir,       \* what root_dir.glob / rglob meets: its entries, or an exception
    \* ---- locals of ConvertWorker.run
    pc,             \* position of the controlling thread in run
    ocio_to_use,
    files,
    max_workers,
    submitted,      \* number of ex.submit calls made so far (line 218)
    fut,            \* the futures, by index in files
    calls,          \* calls[i]: invocations of convert_one for files[i]
    done, ok, fail,
    observed,       \* the drain loop saw the flag and broke out (line 220-222)
    \* ---- signals emitted
    sig_progress,   \* sequence of <<done, total>>
    sig_finished,   \* sequence of <<ok, fail>>
    sig_fatal,      \* sequence of messages
    sig_item_done,  \* number of item_done lines emitted
    \* ---- a single call of a helper on chosen inputs (SpecCmd, SpecConv)
    fn_pc, fn_in, fn_out

runVars == <<pc, ocio_to_use, files, max_workers, submitted, fut, calls,
             done, ok, fail, observed,
             sig_progress, sig_finished, sig_fatal, sig_item_done>>
cfgVars == <<maketx_path, ocio_file, filter_str, recursive, verbose,
             env_OCIO, cpu_count, root_dir>>
fnVars  == <<fn_pc, fn_in, fn_out>>
vars    == <<cfgVars, cancelled, runVars, fnVars>>

None == "<None>"

-----------------------------------------------------------------------------
(* Python str operations                                                   *)

\* Operators that use an argument many times bind it first (x \in {e}), so
\* that the argument is evaluated once.
CharAt(s, i) == SubSeq(s, i, i)

\* str.lower() on ASCII letters
LowerTable ==
    [A |-> "a", B |-> "b", C |-> "c", D |-> "d", E |-> "e", F |-> "f", G |-> "g",
     H |-> "h", I |-> "i", J |-> "j", K |-> "k", L |-> "l", M |-> "m", N |-> "n",
     O |-> "o", P |-> "p", Q |-> "q", R |-> "r", S |-> "s", T |-> "t", U |-> "u",
     V |-> "v", W |-> "w", X |-> "x", Y |-> "y", Z |-> "z"]

LowerChar(c) == IF c \in DOMAIN LowerTable THEN LowerTable[c] ELSE c

RECURSIVE LowerFrom(_, _)
LowerFrom(s, i) ==
    IF i > Len(s) THEN ""
    ELSE (CHOOSE r \in {LowerChar(c) : c \in {CharAt(s, i)}} : TRUE) \o LowerFrom(s, i + 1)

Lower(str) == CHOOSE r \in {LowerFrom(s, 1) : s \in {str}} : TRUE

\* sub in str
Contains(sub, str) ==
    \E t \in {sub} : \E s \in {str} :
        \E i \in 1..(Len(s) - Len(t) + 1) : SubSeq(s, i, i + Len(t) - 1) = t

IsSpace(c) == c = " "

\* str.strip()
StripOf(s) ==
    LET N == {i \in 1..Len(s) : ~IsSpace(CharAt(s, i))}
    IN  IF N = {} THEN ""
        ELSE SubSeq(s, CHOOSE i \in N : \A j \in N : i <= j,
                       CHOOSE i \in N : \A j \in N : j <= i)

Strip(str) == CHOOSE r \in {StripOf(s) : s \in {str}} : TRUE

\* str.rfind("."): 0-based index of the last dot, -1 when there is none
RFindDot(s) ==
    LET D == {i \in 1..Len(s) : CharAt(s, i) = "."}
    IN  IF D = {} THEN -1 ELSE (CHOOSE i \in D : \A j \in D : j <= i) - 1

\* pathlib PurePath.suffix of a file name
SuffixAt(name, i) ==
    IF 0 < i /\ i < Len(name) - 1 THEN SubSeq(name, i + 1, Len(name)) ELSE ""

Suffix(name) == CHOOSE r \in {SuffixAt(name, i) : i \in {RFindDot(name)}} : TRUE

\* pathlib PurePath.with_suffix applied to a file name
WithSuffix(name, suffix) ==
    CHOOSE r \in {IF old = "" THEN name \o suffix
                  ELSE SubSeq(name, 1, Len(name) - Len(old)) \o suffix
                  : old \in {Suffix(name)}} : TRUE

-----------------------------------------------------------------------------
(* maketx helpers                                                          *)

VALID_EXTS == {".png", ".jpg", ".jpeg", ".tif", ".tiff", ".exr", ".dds", ".tga", ".bmp", ".psd"}
COLOR_TAGS == {"srgb", "basecolor", "albedo", "color", "diffuse"}
DSP_TAGS   == {"dsp", "disp", "displacement", "zdisp", "height"}

is_displacement(fname) ==
    \E low \in {Lower(fname)} : \E tag \in DSP_TAGS : Contains(tag, low)

is_color_NoDspCheck(fname) ==
    \E low \in {Lower(fname)} : \E tag \in COLOR_TAGS : Contains(tag, low)

is_color(fname) ==
    \E low \in {Lower(fname)} :
        IF is_displacement(fname) THEN FALSE
        ELSE \E tag \in COLOR_TAGS : Contains(tag, low)

\* A stat of the two paths: dst_exists, and the modification times.
needs_conversion_GE(st) ==
    IF ~st.dst_exists THEN TRUE ELSE st.src_mtime >= st.dst_mtime

needs_conversion(st) ==
    IF ~st.dst_exists THEN TRUE ELSE st.src_mtime > st.dst_mtime

build_maketx_cmd(src, ocio_path, is_verbose, is_col, is_dsp, maketx) ==
    <<maketx, src>>
    \o (IF ocio_path # None /\ ocio_path # "" THEN <<"--colorconfig", ocio_path>> ELSE <<>>)
    \o <<"--opaque-detect", "--constant-color-detect", "--monochrome-detect",
         "--fixnan", "box3",
         "-u",
         "--filter", "lanczos3",
         "--attrib", "tiff:half", "1",
         "--unpremult",
         "--oiio">>
    \o <<"--colorconvert">>
    \o (IF is_col THEN <<"Utility - sRGB - Texture", "ACES - ACEScg">>
                  ELSE <<"Utility - Raw", "ACES - ACEScg">>)
    \o (IF is_dsp THEN <<"-d", "float">> ELSE <<"-d", "half">>)
    \o (IF is_verbose THEN <<"-v">> ELSE <<>>)
    \o <<"--threads", "1">>

\* What one call of convert_one meets outside itself: the stat of src and dst,
\* and the outcome of subprocess.run.  stat_fault: src.stat()/dst.stat() raises;
\* run_fault: subprocess.run raises; fault_text: str(e).
Worlds(Mtimes, Texts) ==
    [dst_exists : BOOLEAN, src_mtime : Mtimes, dst_mtime : Mtimes,
     stat_fault : BOOLEAN, run_fault : BOOLEAN, fault_text : Texts,
     returncode : {0, 1}, stdout : Texts, stderr : Texts]

\* The value convert_one returns, (src, success, message), with the line of
\* the return statement that produced it and the command handed to
\* subprocess.run (<<>> when subprocess.run is never called).
Outcome(src, success, message, line, cmd) ==
    [src |-> src, success |-> success, message |-> message, at |-> line, spawn |-> cmd]

\* The part of convert_one that depends on its arguments alone: the lowered
\* suffix and dst (line 108), and the command of lines 115-117.
convert_one_plan(src, ocio_path, is_verbose, maketx) ==
    [suffix |-> Lower(Suffix(src)),
     dst    |-> IF Lower(Suffix(src)) # ".tx"
                THEN WithSuffix(src, Suffix(src) \o ".tx") ELSE src,
     cmd    |-> build_maketx_cmd(src, ocio_path, is_verbose,
                                 is_color(src), is_displacement(src), maketx)]

\* Lines 109-138, given that part and what the call meets.
convert_one_in(plan, src, is_verbose, w) ==
    IF plan.suffix = ".tx"
    THEN Outcome(src, FALSE, "Already a .tx; skipping.", 110, <<>>)
    ELSE IF w.dst_exists /\ w.stat_fault
    THEN Outcome(src, FALSE, "Exception: " \o w.fault_text, 138, <<>>)
    ELSE IF ~needs_conversion(w)
    THEN Outcome(src, FALSE, "Up-to-date .tx exists: " \o plan.dst \o "; skipping.",
                 113, <<>>)
    ELSE IF w.run_fault
    THEN Outcome(src, FALSE, "Exception: " \o w.fault_text, 138, plan.cmd)
    ELSE IF w.returncode = 0
    THEN LET out_msg == IF is_verbose /\ w.stdout # "" THEN Strip(w.stdout) ELSE ""
         IN  Outcome(src, TRUE, IF out_msg # "" THEN out_msg ELSE "OK", 132, plan.cmd)
    ELSE LET err == Strip(w.stderr)
         IN  Outcome(src, FALSE,
                     "maketx failed: " \o (IF err # "" THEN err ELSE "Unknown error"),
                     135, plan.cmd)

convert_one(src, ocio_path, is_verbose, maketx, w) ==
    CHOOSE r \in {convert_one_in(plan, src, is_verbose, w) :
                    plan \in {convert_one_plan(src, ocio_path, is_verbose, maketx)}} : TRUE

-----------------------------------------------------------------------------
(* ConvertWorker: construction, validation (lines 166-215)                 *)

MaxEntries == 5
MaxCpu == 3

Max(a, b) == IF a >= b THEN a ELSE b

\* os.cpu_count() returning None ("or 1" on line 209 treats None and 0 alike)
NoCpuCount == 0

\* The file system the run sees: which paths exist, and which are regular files.
FsFiles == {"maketx", "aces.ocio", "env.ocio"}
FsDirs  == {"cfgdir", "."}
PathExists(p) == (IF p = "" THEN "." ELSE p) \in FsFiles \cup FsDirs
PathIsFile(p) == (IF p = "" THEN "." ELSE p) \in FsFiles

\* What the root directory holds: entry i of a listing, cycling through five
\* kinds of entry (a texture, a non-texture, a texture in a subdirectory, a
\* directory with a texture's name, another texture).
EntryKinds ==
    << [name |-> "wood_color.png", is_file |-> TRUE,  depth |-> 1],
       [name |-> "notes.txt",      is_file |-> TRUE,  depth |-> 1],
       [name |-> "height.EXR",     is_file |-> TRUE,  depth |-> 2],
       [name |-> "sub.png",        is_file |-> FALSE, depth |-> 1],
       [name |-> "rough.tif",      is_file |-> TRUE,  depth |-> 1] >>
Entry(i) == EntryKinds[((i - 1) % Len(EntryKinds)) + 1]
Listing(n) == [raises |-> FALSE, entries |-> [i \in 1..n |-> Entry(i)]]
Unlistable == [raises |-> TRUE, entries |-> <<>>]

\* __init__, lines 155-159: the stripped arguments.
InitFilter(arg) == IF arg # None /\ arg # "" THEN Strip(arg) ELSE ""
InitOcio(arg) == IF arg # None /\ arg # "" THEN Strip(arg) ELSE None

\* Lines 170-184.  [fatal |-> message or None, ocio |-> ocio_to_use]
ResolveOcio_EnvFirst(explicit, environ) ==
    LET env_ocio == Strip(IF environ = None THEN "" ELSE environ)
    IN  IF env_ocio # "" /\ PathExists(env_ocio)
        THEN [fatal |-> None, ocio |-> env_ocio]
        ELSE IF explicit # None /\ explicit # "" /\ PathIsFile(explicit)
        THEN [fatal |-> None, ocio |-> explicit]
        ELSE [fatal |-> "No OCIO specified and $OCIO is not set.", ocio |-> None]

ResolveOcio(explicit, environ) ==
    IF explicit # None /\ explicit # ""
    THEN IF ~PathIsFile(explicit)
         THEN [fatal |-> "OCIO file not found: " \o explicit, ocio |-> None]
         ELSE [fatal |-> None, ocio |-> explicit]
    ELSE LET env_ocio == Strip(IF environ = None THEN "" ELSE environ)
         IN  IF env_ocio = ""
             THEN [fatal |-> "No OCIO specified and $OCIO is not set.", ocio |-> None]
             ELSE IF ~PathExists(env_ocio)
             THEN [fatal |-> "$OCIO points to non-existent file: " \o env_ocio, ocio |-> None]
             ELSE [fatal |-> None, ocio |-> env_ocio]

\* Lines 186-202: the names kept, in listing order, unless the listing raises.
Keeps(e, rec, flt) ==
    /\ rec \/ e.depth = 1
    /\ e.is_file
    /\ Lower(Suffix(e.name)) \in VALID_EXTS
    /\ ~(flt # "" /\ ~Contains(flt, e.name))

RECURSIVE KeptNames(_, _, _)
KeptNames(listing, rec, flt) ==
    IF Len(listing) = 0 THEN <<>>
    ELSE (IF Keeps(Head(listing), rec, flt) THEN <<Head(listing).name>> ELSE <<>>)
         \o KeptNames(Tail(listing), rec, flt)

Enumerate(root, rec, flt) ==
    IF root.raises THEN [raised |-> TRUE, files |-> <<>>]
    ELSE [raised |-> FALSE, files |-> KeptNames(root.entries, rec, flt)]

\* Line 205.
NoFiles_Never(total) == FALSE

NoFiles(total) == total = 0

\* Lines 209-210.
WorkerCount_NoReserve(cpu) == Max(1, IF cpu = NoCpuCount THEN 1 ELSE cpu)

WorkerCount(cpu) == Max(1, Max(1, (IF cpu = NoCpuCount THEN 1 ELSE cpu) - 1))

\* Lines 166-207: the first fatal condition met, or None.
Validation ==
    IF maketx_path = "" \/ ~PathExists(maketx_path)
    THEN [fatal |-> "maketx.exe not set or not found. Please select the path in the GUI.",
          ocio |-> None, files |-> <<>>]
    ELSE LET r == ResolveOcio(ocio_file, env_OCIO)
         IN  IF r.fatal # None THEN [fatal |-> r.fatal, ocio |-> None, files |-> <<>>]
             ELSE LET en == Enumerate(root_dir, recursive, filter_str)
                      fs == en.files
                  IN  IF en.raised
                      THEN [fatal |-> "Failed to list files: Permission denied",
                            ocio |-> r.ocio, files |-> <<>>]
                      ELSE IF NoFiles(Len(fs))
                      THEN [fatal |-> "No valid textures in folder (check extensions or filter).",
                            ocio |-> r.ocio, files |-> fs]
                      ELSE [fatal |-> None, ocio |-> r.ocio, files |-> fs]

\* A future: none before its submit, then PENDING, RUNNING, FINISHED.  "hung"
\* is RUNNING inside a subprocess.run whose process never exits; "yielded" is
\* FINISHED and handed to the loop body by as_completed; "consumed" is
\* FINISHED with its result tallied by the loop body.
NoFuture == [state |-> "none", result |-> None]

total == Len(files)

\* run returns at line 168/174/180/183/202/207 after one fatal.emit
RunFatal ==
    /\ pc = "start"
    /\ Validation.fatal # None
    /\ sig_fatal' = Append(sig_fatal, Validation.fatal)
    /\ pc' = "returned_fatal"
    /\ UNCHANGED <<cfgVars, cancelled, fnVars, ocio_to_use, files, max_workers, submitted,
                   fut, calls, done, ok, fail, observed,
                   sig_progress, sig_finished, sig_item_done>>

\* lines 166-215 with no fatal condition: up to the pool's creation
RunStart ==
    /\ pc = "start"
    /\ Validation.fatal = None
    /\ ocio_to_use' = Validation.ocio
    /\ files' = Validation.files
    /\ max_workers' = WorkerCount(cpu_count)
    /\ sig_item_done' = sig_item_done + 1
    /\ done' = 0 /\ ok' = 0 /\ fail' = 0
    /\ submitted' = 0
    /\ fut' = [i \in 1..Len(Validation.files) |-> NoFuture]
    /\ calls' = [i \in 1..Len(Validation.files) |-> 0]
    /\ pc' = "submit"
    /\ UNCHANGED <<cfgVars, cancelled, fnVars, observed,
                   sig_progress, sig_finished, sig_fatal>>

-----------------------------------------------------------------------------
(* The pool (lines 217-218) and the worker threads                         *)

\* What a convert_one call of a run may meet.
BaseWorld ==
    [dst_exists |-> FALSE, src_mtime |-> 1, dst_mtime |-> 1,
     stat_fault |-> FALSE, run_fault |-> FALSE, fault_text |-> "",
     returncode |-> 0, stdout |-> "", stderr |-> ""]
RunWorlds ==
    { BaseWorld,
      [BaseWorld EXCEPT !.dst_exists = TRUE],
      [BaseWorld EXCEPT !.returncode = 1, !.stderr = "bad data "],
      [BaseWorld EXCEPT !.returncode = 1, !.stderr = "Skipped mip"],
      [BaseWorld EXCEPT !.dst_exists = TRUE, !.stat_fault = TRUE,
                        !.fault_text = "denied"] }

InState(S) == {i \in 1..total : fut[i].state \in S}
Busy == InState({"running", "hung"})

\* line 218: one ex.submit; after the last one, as_completed is entered
Submit ==
    /\ pc = "submit"
    /\ submitted < total
    /\ submitted' = submitted + 1
    /\ fut' = [fut EXCEPT ![submitted + 1].state = "pending"]
    /\ pc' = IF submitted + 1 = total THEN "drain" ELSE "submit"
    /\ UNCHANGED <<cfgVars, cancelled, fnVars, ocio_to_use, files, max_workers,
                   calls, done, ok, fail, observed,
                   sig_progress, sig_finished, sig_fatal, sig_item_done>>

\* A pool thread is free: at most max_workers work items run at a time.
ThreadFree == Cardinality(Busy) < max_workers

\* A free pool thread takes the oldest queued work item and calls convert_one.
WorkerStart ==
    /\ InState({"pending"}) # {}
    /\ ThreadFree
    /\ LET i == CHOOSE j \in InState({"pending"}) : \A k \in InState({"pending"}) : j <= k
       IN  /\ fut' = [fut EXCEPT ![i].state = "running"]
           /\ calls' = [calls EXCEPT ![i] = calls[i] + 1]
    /\ UNCHANGED <<cfgVars, cancelled, fnVars, pc, ocio_to_use, files, max_workers,
                   submitted, done, ok, fail, observed,
                   sig_progress, sig_finished, sig_fatal, sig_item_done>>

\* convert_one returns; the future becomes FINISHED with its result.
WorkerReturn(i) ==
    /\ i \in InState({"running"})
    /\ \E plan \in {convert_one_plan(files[i], ocio_to_use, verbose, maketx_path)} :
       \E w \in RunWorlds :
          fut' = [fut EXCEPT ![i] =
                    [state |-> "finished",
                     result |-> convert_one_in(plan, files[i], verbose, w)]]
    /\ UNCHANGED <<cfgVars, cancelled, fnVars, pc, ocio_to_use, files, max_workers,
                   submitted, calls, done, ok, fail, observed,
                   sig_progress, sig_finished, sig_fatal, sig_item_done>>

\* convert_one has started a process that never exits (no timeout, line 119).
WorkerHang(i) ==
    /\ i \in InState({"running"})
    /\ \E plan \in {convert_one_plan(files[i], ocio_to_use, verbose, maketx_path)} :
       \E w \in RunWorlds :
          /\ ~w.run_fault
          /\ convert_one_in(plan, files[i], verbose, w).spawn # <<>>
    /\ fut' = [fut EXCEPT ![i].state = "hung"]
    /\ UNCHANGED <<cfgVars, cancelled, fnVars, pc, ocio_to_use, files, max_workers,
                   submitted, calls, done, ok, fail, observed,
                   sig_progress, sig_finished, sig_fatal, sig_item_done>>

-----------------------------------------------------------------------------
(* The drain loop (lines 219-234), the pool's exit and finished (236)      *)

\* line 229
IsSkipMessage(message) == \E low \in {Lower(message)} : Contains("skip", low)

\* lines 224-233: the counters after one outcome
Tally_FailOnSkip(res, d, o, f) ==
    [done |-> d + 1,
     ok   |-> IF res.success THEN o + 1 ELSE o,
     fail |-> IF res.success THEN f ELSE f + 1]

Tally(res, d, o, f) ==
    [done |-> d + 1,
     ok   |-> IF res.success THEN o + 1 ELSE o,
     fail |-> IF res.success THEN f
              ELSE IF IsSkipMessage(res.message) THEN f ELSE f + 1]

\* line 220
CancelSeen_Never == FALSE

CancelSeen == cancelled

\* as_completed yields future i and line 220 reads the flag clear.  cancel()
\* may run between this read and the tally of lines 223-234.
DrainCheck(i) ==
    /\ pc = "drain"
    /\ i \in InState({"finished"})
    /\ ~CancelSeen
    /\ fut' = [fut EXCEPT ![i].state = "yielded"]
    /\ pc' = "tally"
    /\ UNCHANGED <<cfgVars, cancelled, fnVars, ocio_to_use, files, max_workers,
                   submitted, calls, done, ok, fail, observed,
                   sig_progress, sig_finished, sig_fatal, sig_item_done>>

\* lines 223-234: the yielded outcome is tallied, logged and progress emitted
DrainTally ==
    /\ pc = "tally"
    /\ \E i \in InState({"yielded"}) :
        \E t \in {Tally(fut[i].result, done, ok, fail)} :
           /\ done' = t.done /\ ok' = t.ok /\ fail' = t.fail
           /\ sig_progress' = Append(sig_progress, <<t.done, total>>)
           /\ fut' = [fut EXCEPT ![i].state = "consumed"]
    /\ sig_item_done' = sig_item_done + 1
    /\ pc' = "drain"
    /\ UNCHANGED <<cfgVars, cancelled, fnVars, ocio_to_use, files, max_workers,
                   submitted, calls, observed, sig_finished, sig_fatal>>

\* line 222: break leaves the loop, not run
AfterBreak_Return == "returned"

AfterBreak == "exit_pool"

\* as_completed yields a future; the flag is set: lines 220-222
DrainBreak ==
    /\ pc = "drain"
    /\ InState({"finished"}) # {}
    /\ CancelSeen
    /\ observed' = TRUE
    /\ sig_item_done' = sig_item_done + 1
    /\ pc' = AfterBreak
    /\ UNCHANGED <<cfgVars, cancelled, fnVars, ocio_to_use, files, max_workers,
                   submitted, fut, calls, done, ok, fail,
                   sig_progress, sig_finished, sig_fatal>>

\* as_completed is exhausted: every future has been yielded
DrainEnd ==
    /\ pc = "drain"
    /\ InState({"consumed"}) = 1..total
    /\ pc' = "exit_pool"
    /\ UNCHANGED <<cfgVars, cancelled, fnVars, ocio_to_use, files, max_workers,
                   submitted, fut, calls, done, ok, fail, observed,
                   sig_progress, sig_finished, sig_fatal, sig_item_done>>

\* The with block's exit is shutdown(wait=True): it returns when no work item
\* is queued or running.
PoolIdle_DropQueued == InState({"running", "hung"}) = {}

PoolIdle == InState({"pending", "running", "hung"}) = {}

\* lines 217 (exit of the with block) and 236
ExitPool ==
    /\ pc = "exit_pool"
    /\ PoolIdle
    /\ sig_finished' = Append(sig_finished, <<ok, fail>>)
    /\ pc' = "returned"
    /\ UNCHANGED <<cfgVars, cancelled, fnVars, ocio_to_use, files, max_workers,
                   submitted, fut, calls, done, ok, fail, observed,
                   sig_progress, sig_fatal, sig_item_done>>

\* lines 162-163, from the GUI thread
Cancel ==
    /\ pc # "off"
    /\ ~cancelled
    /\ cancelled' = TRUE
    /\ UNCHANGED <<cfgVars, fnVars, runVars>>

Controller == RunFatal \/ RunStart \/ Submit \/ DrainTally \/ DrainBreak \/ DrainEnd
              \/ ExitPool \/ \E i \in 1..total : DrainCheck(i)
Workers == WorkerStart \/ \E i \in 1..total : WorkerReturn(i) \/ WorkerHang(i)

Next == Controller \/ Workers \/ Cancel

\* The state after __init__, before the thread calls run.
Constructed(MaketxArgs, OcioArgs, Environs, FilterArgs, Roots, Cpus) ==
    /\ maketx_path \in {Strip(a) : a \in MaketxArgs}
    /\ ocio_file \in {InitOcio(a) : a \in OcioArgs}
    /\ filter_str \in {InitFilter(a) : a \in FilterArgs}
    /\ recursive \in BOOLEAN
    /\ verbose = FALSE
    /\ cancelled = FALSE
    /\ env_OCIO \in Environs
    /\ cpu_count \in Cpus
    /\ root_dir \in Roots
    /\ pc = "start" /\ ocio_to_use = None /\ files = <<>> /\ max_workers = 0
    /\ submitted = 0 /\ fut = <<>> /\ calls = <<>>
    /\ done = 0 /\ ok = 0 /\ fail = 0 /\ observed = FALSE
    /\ sig_progress = <<>> /\ sig_finished = <<>> /\ sig_fatal = <<>> /\ sig_item_done = 0
    /\ fn_pc = "none" /\ fn_in = None /\ fn_out = None

CpuCounts == {NoCpuCount} \cup 1..MaxCpu

\* Runs of up to three textures, and a few runs that validation stops, on a
\* machine whose cpu count is unknown, one, or MaxCpu.
Init ==
    Constructed({"maketx ", ""}, {None, " aces.ocio"}, {None}, {None, "oo "},
                {Listing(n) : n \in {0, MaxEntries}} \cup {Unlistable},
                {NoCpuCount, 1, MaxCpu})

Spec == Init /\ [][Next]_vars

\* Every combination of converter path, explicit color config and $OCIO,
\* over short listings.
MaxValEntries == 1

ValInit ==
    Constructed({"", " ", "maketx ", "gone"},
                {None, "", " ", "aces.ocio ", "gone.ocio", "cfgdir"},
                {None, " ", " env.ocio", "gone.ocio", "cfgdir"},
                {None, "oo", "Wood"},
                {Listing(n) : n \in 0..MaxValEntries} \cup {Unlistable}, CpuCounts)

SpecValidate == ValInit /\ [][Next]_vars

\* Runs under the scheduling the code relies on: the controlling thread and
\* the pool threads keep running, and a process that does not hang exits.
MaxLiveEntries == 4

LiveInit ==
    Constructed({"maketx"}, {"aces.ocio"}, {None}, {None},
                {Listing(n) : n \in {0, MaxLiveEntries}}, {NoCpuCount, MaxCpu})

Fairness ==
    /\ WF_vars(Controller)
    /\ WF_vars(WorkerStart)
    /\ \A i \in 1..MaxLiveEntries : WF_vars(WorkerReturn(i))

FairSpec == LiveInit /\ [][Next]_vars /\ Fairness

-----------------------------------------------------------------------------
(* One call of a helper on chosen inputs                                   *)

MaxFrags == 2
MaxMtime == 2

\* File names are built from fragments, so that a tag can straddle two
\* fragments ("d" + "sp", "col" + "or") or sit inside a longer one ("zdisp").
Frags == {"wood", "_", "d", "sp", "Disp", "zdisp", "HEIGHT", "displacement",
          "sRGB", "BaseColor", "col", "or", "Diffuse", "albedo"}
NameExts == {".png", ".EXR"}

RECURSIVE NameStems(_)
NameStems(k) ==
    IF k = 0 THEN {""}
    ELSE LET P == NameStems(k - 1) IN P \cup {p \o f : p \in P, f \in Frags}

CmdNames == {s \o e : s \in NameStems(MaxFrags), e \in NameExts}
CmdInputs ==
    [src : CmdNames, ocio_path : {None, "aces.ocio"}, verbose : BOOLEAN,
     maketx_path : {"maketx"}]

ConvNames == {"wood_basecolor.png", "rock_height.EXR", "old.tx", "OLD.TX", "a.png.Tx",
              "noext", ".tx"}
ConvTexts == {"", " skipped level "}
ConvInputs ==
    [src : ConvNames, ocio_path : {"aces.ocio"}, verbose : BOOLEAN,
     maketx_path : {"maketx"}, w : Worlds(0..MaxMtime, ConvTexts)]

\* No ConvertWorker exists: the helpers are called on their own.
RunOff ==
    /\ maketx_path = "" /\ ocio_file = None /\ filter_str = "" /\ recursive = FALSE
    /\ verbose = FALSE /\ cancelled = FALSE /\ env_OCIO = "" /\ cpu_count = NoCpuCount
    /\ root_dir = Listing(0)
    /\ pc = "off" /\ ocio_to_use = None /\ files = <<>> /\ max_workers = 0
    /\ submitted = 0 /\ fut = <<>> /\ calls = <<>>
    /\ done = 0 /\ ok = 0 /\ fail = 0 /\ observed = FALSE
    /\ sig_progress = <<>> /\ sig_finished = <<>> /\ sig_fatal = <<>> /\ sig_item_done = 0

\* Lines 115-117: classify the source and build its command.
ClassifyAndBuild ==
    /\ fn_pc = "cmd_in"
    /\ LET col == is_color(fn_in.src)
           dsp == is_displacement(fn_in.src)
       IN  fn_out' = [col |-> col, dsp |-> dsp,
                      cmd |-> build_maketx_cmd(fn_in.src, fn_in.ocio_path, fn_in.verbose,
                                               col, dsp, fn_in.maketx_path)]
    /\ fn_pc' = "cmd_out"
    /\ UNCHANGED <<fn_in, cfgVars, cancelled, runVars>>

CmdInit == RunOff /\ fn_pc = "cmd_in" /\ fn_in \in CmdInputs /\ fn_out = None
SpecCmd == CmdInit /\ [][ClassifyAndBuild]_vars

\* One call of convert_one.
ConvertOneCall ==
    /\ fn_pc = "conv_in"
    /\ fn_out' = convert_one(fn_in.src, fn_in.ocio_path, fn_in.verbose,
                             fn_in.maketx_path, fn_in.w)
    /\ fn_pc' = "conv_out"
    /\ UNCHANGED <<fn_in, cfgVars, cancelled, runVars>>

ConvInit == RunOff /\ fn_pc = "conv_in" /\ fn_in \in ConvInputs /\ fn_out = None
SpecConv == ConvInit /\ [][ConvertOneCall]_vars

-----------------------------------------------------------------------------
(* Properties                                                              *)

Consumed == InState({"consumed"})
Succeeded == {i \in Consumed : fut[i].result.success}
\* outcomes that took the "•" branch of line 229: counted in neither ok nor fail
Skipped == {i \in Consumed : ~fut[i].result.success /\ IsSkipMessage(fut[i].result.message)}
\* outcomes returned by the nonzero-exit branch (135) or the except branch (138)
Failed == {i \in Consumed : fut[i].result.at \in {135, 138}}

\* C1: when finished is emitted and cancel() was never called, every one of
\* the N futures has been consumed exactly once (done = N), the tally is
\* (ok, fail), and ok + fail + skips = N.
C1_AllTalliedWithoutCancel ==
    (sig_finished # <<>> /\ ~cancelled) =>
        /\ total >= 1
        /\ done = total
        /\ Consumed = 1..total
        /\ Len(sig_progress) = total
        /\ sig_finished = << <<ok, fail>> >>
        /\ ok = Cardinality(Succeeded)
        /\ ok + fail + Cardinality(Skipped) = total

C1_Witness ==
    /\ sig_finished # <<>> /\ ~cancelled
    /\ total = 3 /\ ok = 1 /\ fail = 1 /\ Cardinality(Skipped) = 1

\* C2: once the cancel flag is set, the next completion the drain loop looks
\* at makes it leave the loop, and neither that completion nor a later one is
\* taken for the tally; after the flag is observed done/ok/fail do not change
\* and no progress is emitted; and the finished tally is the (ok, fail) of the
\* outcomes consumed before, with ok + fail <= done <= total.
C2_CancelStopsTally ==
    [][ /\ (cancelled /\ pc = "drain") =>
              /\ pc' \in {"drain", "exit_pool"}
              /\ UNCHANGED <<done, ok, fail, sig_progress>>
              /\ \A i \in 1..total :
                    fut'[i].state \in {"yielded", "consumed"} => fut'[i] = fut[i]
        /\ (cancelled /\ pc \in {"exit_pool", "returned"}) =>
              UNCHANGED <<done, ok, fail, sig_progress>>
        /\ observed => (observed' /\ UNCHANGED <<done, ok, fail, sig_progress>>)
        /\ sig_finished' # sig_finished =>
              /\ sig_finished' = << <<ok, fail>> >>
              /\ done = Cardinality(Consumed)
              /\ Len(sig_progress) = done
              /\ ok + fail <= done /\ done <= total ]_vars

C2_Witness ==
    /\ observed /\ sig_finished # <<>>
    /\ 0 < done /\ done < total
    /\ InState({"finished"}) # {}

\* C3: at every moment the failure count equals the number of consumed
\* outcomes that are failures (nonzero exit, or a fault inside convert_one),
\* whatever their text.
C3_EveryFailureCounted == fail = Cardinality(Failed)

\* C5: convert_one is invoked at most once per file and exactly once for a
\* future that has left the queue; when run returns after the Running phase,
\* cancelled or not, every file has had its one invocation and every
\* invocation has returned.
C5_EachTaskRunsOnce ==
    /\ \A i \in 1..total :
          /\ calls[i] <= 1
          /\ calls[i] = 1 <=>
                fut[i].state \in {"running", "hung", "finished", "yielded", "consumed"}
    /\ pc = "returned" =>
          \A i \in 1..total : calls[i] = 1 /\ fut[i].state \in {"finished", "consumed"}

C5_Witness ==
    /\ pc = "returned" /\ observed /\ done = 0 /\ total >= 2
    /\ \A i \in 1..total : calls[i] = 1

\* C7: the worker count is max(1, cpu count - 1), 1 for a cpu count of 1 or
\* None; never more than that many convert_one calls are in progress; nothing
\* is drained before all N tasks are submitted; and no step of a pool thread
\* changes done/ok/fail.
ClaimedWorkers == IF cpu_count = NoCpuCount \/ cpu_count = 1 THEN 1 ELSE cpu_count - 1

C7_BoundedPool ==
    /\ [](pc \notin {"start", "returned_fatal"} =>
            /\ max_workers = ClaimedWorkers
            /\ Cardinality(Busy) <= max_workers
            /\ (done > 0 \/ observed \/ InState({"yielded"}) # {}
                \/ pc \in {"drain", "tally", "exit_pool", "returned"})
                  => submitted = total)
    /\ [][ (\E i \in 1..total : /\ fut[i].state \in {"pending", "running"}
                                /\ fut'[i].state # fut[i].state)
           => UNCHANGED <<done, ok, fail>> ]_vars

C7_Witness ==
    /\ max_workers >= 2 /\ Cardinality(Busy) = max_workers
    /\ InState({"pending"}) # {} /\ submitted = total

\* The fatal conditions, as the configuration and the file system have them.
Explicit == ocio_file # None /\ ocio_file # ""
EnvValue == Strip(IF env_OCIO = None THEN "" ELSE env_OCIO)
MaketxInvalid == maketx_path = "" \/ ~PathExists(maketx_path)
ColorConfigInvalid ==
    IF Explicit THEN ~PathIsFile(ocio_file)
    ELSE EnvValue = "" \/ ~PathExists(EnvValue)
NothingKept ==
    \A k \in 1..Len(root_dir.entries) : ~Keeps(root_dir.entries[k], recursive, filter_str)
FatalCondition == MaketxInvalid \/ ColorConfigInvalid \/ root_dir.raises \/ NothingKept

\* C4: a run that starts under a fatal condition emits exactly one fatal and
\* returns with nothing submitted, no convert_one call, no progress and no
\* finished; a run under no fatal condition emits no fatal.
C4_FatalStopsBeforeTasks ==
    pc # "start" =>
        IF FatalCondition
        THEN /\ pc = "returned_fatal"
             /\ Len(sig_fatal) = 1
             /\ submitted = 0 /\ fut = <<>> /\ calls = <<>>
             /\ sig_progress = <<>> /\ sig_finished = <<>> /\ sig_item_done = 0
        ELSE sig_fatal = <<>> /\ pc # "returned_fatal"

C4_Witness ==
    /\ pc = "returned_fatal"
    /\ ~MaketxInvalid /\ ~ColorConfigInvalid /\ ~root_dir.raises
    /\ Len(root_dir.entries) > 0
    /\ sig_fatal = << "No valid textures in folder (check extensions or filter)." >>

\* C9: with a valid converter path, an explicit color config decides alone
\* (missing: fatal; a file: used), whatever $OCIO holds; without one, a blank
\* or unset $OCIO is one fatal, a $OCIO naming nothing that exists is another,
\* and otherwise the stripped $OCIO is the color config of the run and of
\* every command a task hands to subprocess.run.
OcioFatals ==
    {"OCIO file not found: " \o (IF Explicit THEN ocio_file ELSE ""),
     "No OCIO specified and $OCIO is not set.",
     "$OCIO points to non-existent file: " \o EnvValue}
UsesColorConfig(path) ==
    /\ pc \notin {"start", "returned_fatal"} => ocio_to_use = path
    /\ \A k \in 1..Len(sig_fatal) : sig_fatal[k] \notin OcioFatals
    /\ \A i \in InState({"finished", "yielded", "consumed"}) :
          LET cmd == fut[i].result.spawn
          IN  cmd # <<>> => \E k \in 1..(Len(cmd) - 1) :
                               cmd[k] = "--colorconfig" /\ cmd[k + 1] = path

C9_ColorConfigResolution ==
    (pc # "start" /\ ~MaketxInvalid) =>
        IF Explicit
        THEN IF PathIsFile(ocio_file) THEN UsesColorConfig(ocio_file)
             ELSE sig_fatal = << "OCIO file not found: " \o ocio_file >>
        ELSE IF EnvValue = ""
             THEN sig_fatal = << "No OCIO specified and $OCIO is not set." >>
             ELSE IF ~PathExists(EnvValue)
             THEN sig_fatal = << "$OCIO points to non-existent file: " \o EnvValue >>
             ELSE UsesColorConfig(EnvValue)

C9_Witness ==
    /\ pc = "returned_fatal" /\ ~MaketxInvalid
    /\ Explicit /\ ~PathIsFile(ocio_file)
    /\ EnvValue # "" /\ PathIsFile(EnvValue)
    /\ sig_fatal = << "OCIO file not found: " \o ocio_file >>

Hung == InState({"hung"})
AllSettled == \A i \in 1..total : fut[i].state \in {"hung", "consumed"}

\* C6 as claimed: a single hung process never keeps the other tasks from
\* completing and being tallied (unless the run is cancelled).
C6_OneHangBlocksNoOther ==
    (pc = "drain") ~> (cancelled \/ Cardinality(Hung) # 1 \/ AllSettled)

\* C6: finished is emitted at most once and never while a process hangs; a
\* validated run whose processes all exit reaches finished, cancelled or not;
\* and while fewer than max_workers processes hang, every other task
\* completes and is tallied (unless the run is cancelled).
C6_FinishedEventually ==
    /\ [](Len(sig_finished) <= 1)
    /\ [](Hung # {} => sig_finished = <<>>)
    /\ [](pc = "returned" => sig_finished = << <<ok, fail>> >>)
    /\ (pc = "submit") ~> (pc = "returned" \/ Hung # {})
    /\ (pc = "drain") ~> (cancelled \/ Cardinality(Hung) >= max_workers \/ AllSettled)

C6_Witness ==
    /\ pc = "drain" /\ ~cancelled /\ max_workers = 2
    /\ Cardinality(Hung) = 1 /\ AllSettled /\ done = total - 1 /\ total = 2

\* C8 and C10, on one call of the helper.
HasTag(tags, name) ==
    \E low \in {Lower(name)} :
        \E a \in 1..Len(low) : \E b \in a..Len(low) : SubSeq(low, a, b) \in tags
HasPair(cmd, x, y) == \E k \in 1..(Len(cmd) - 1) : cmd[k] = x /\ cmd[k + 1] = y
ConvertsWith(cmd, from) ==
    \E k \in 1..(Len(cmd) - 2) :
        cmd[k] = "--colorconvert" /\ cmd[k + 1] = from /\ cmd[k + 2] = "ACES - ACEScg"
\* the name ends in ".tx", in any case, after a non-empty stem
BearsTx(name) ==
    Len(name) > 3 /\ Lower(SubSeq(name, Len(name) - 2, Len(name))) = ".tx"

\* C8: convert_one hands a command to subprocess.run exactly when the source
\* does not bear .tx and either the destination is absent or the readable
\* source mtime is strictly greater than the destination's; with an existing
\* destination whose mtime is equal or newer, nothing is run and the outcome
\* is a skip (success false) citing "Up-to-date .tx" and source + ".tx".
C8_RunsOnlyWhenStale ==
    fn_pc = "conv_out" =>
        LET w == fn_in.w
            src == fn_in.src
            readable == ~(w.dst_exists /\ w.stat_fault)
            stale == ~w.dst_exists \/ (readable /\ w.src_mtime > w.dst_mtime)
        IN  /\ fn_out.spawn # <<>> <=> (~BearsTx(src) /\ stale)
            /\ fn_out.spawn # <<>> => fn_out.spawn[1] = fn_in.maketx_path /\ fn_out.spawn[2] = src
            /\ (~BearsTx(src) /\ w.dst_exists /\ readable /\ w.src_mtime <= w.dst_mtime) =>
                  /\ fn_out.spawn = <<>>
                  /\ ~fn_out.success
                  /\ Contains("Up-to-date .tx", fn_out.message)
                  /\ Contains(src \o ".tx", fn_out.message)
                  /\ Contains("skip", Lower(fn_out.message))

C8_Witness ==
    /\ fn_pc = "conv_out" /\ ~BearsTx(fn_in.src)
    /\ fn_in.w.dst_exists /\ ~fn_in.w.stat_fault /\ fn_in.w.src_mtime = fn_in.w.dst_mtime
    /\ fn_out.spawn = <<>> /\ fn_out.at = 113

\* C10: a name with a displacement tag is displacement and not color, and its
\* command has "-d float" and the raw pair; any other name gets "-d half",
\* with the sRGB pair exactly when it has a color tag and the raw pair
\* otherwise.
C10_ClassifiedCommand ==
    fn_pc = "cmd_out" =>
        LET name == fn_in.src
            cmd == fn_out.cmd
            d == HasTag(DSP_TAGS, name)
            c == HasTag(COLOR_TAGS, name)
        IN  /\ fn_out.dsp = d
            /\ fn_out.col = (c /\ ~d)
            /\ HasPair(cmd, "-d", "float") = d
            /\ HasPair(cmd, "-d", "half") = ~d
            /\ ConvertsWith(cmd, "Utility - sRGB - Texture") = (c /\ ~d)
            /\ ConvertsWith(cmd, "Utility - Raw") = ~(c /\ ~d)

C10_Witness ==
    /\ fn_pc = "cmd_out"
    /\ HasTag(DSP_TAGS, fn_in.src) /\ HasTag(COLOR_TAGS, fn_in.src)
    /\ fn_out.dsp /\ ~fn_out.col
    /\ HasPair(fn_out.cmd, "-d", "float") /\ ConvertsWith(fn_out.cmd, "Utility - Raw")

====
